---- MODULE Spec2Model ----
(***************************************************************************)
(* Transport Order System: the transport decision engine                   *)
(* (TransportFactory::create_transport), the three transports' ETA and     *)
(* description, the order ledger (OrderManager) and the extern "C"         *)
(* interface add_order / get_orders_log / reset_system of order_logic.cpp  *)
(* (src/unnamed/part_000), with the selection embedded in the manager of   *)
(* src/Order.cpp.                                                          *)
(*                                                                         *)
(* Numbers.  weight_kg and distance_km are doubles in the source.  Here a  *)
(* weight or a distance is an integer count of tenths (Tenths(20) is 20.0) *)
(* and route_minutes is an integer count of 1/2500 minute (Minutes(30) is  *)
(* 30.0), which makes 30 + distance/50 and the urgent factor 0.8 exact.    *)
(* Strings are sequences of string tokens; to_string produces one token    *)
(* per character.                                                          *)
(***************************************************************************)
EXTENDS Integers, Sequences, FiniteSets, TLC

\* ------------------------------------------------------------------------
\* Bounds of the model
\* ------------------------------------------------------------------------

\* most records the ledger holds before add_order is no longer taken
MaxOrders == 3

\* consecutive get_orders_log calls that are told apart
MaxGets == 2

\* most records the ledger holds in the runs that keep an earlier record
MaxSession == 2

\* ------------------------------------------------------------------------
\* Fixed-point units
\* ------------------------------------------------------------------------

Tenths(x) == x * 10

Minutes(m) == m * 2500

\* static_cast<int>(a / b) for b > 0: truncation toward zero
TruncDiv(a, b) == IF a >= 0 THEN a \div b ELSE -((-a) \div b)

\* ------------------------------------------------------------------------
\* namespace Config
\* ------------------------------------------------------------------------

AIR_MAX_WEIGHT == Tenths(20)

AIR_MIN_DIST == Tenths(500)

SHIP_MIN_DIST == Tenths(2000)

SHIP_MAX_WEIGHT == Tenths(1000)

TRUCK_HEAVY_THRESHOLD == Tenths(200)

\* ------------------------------------------------------------------------
\* Transports
\* ------------------------------------------------------------------------

TruckTransport(minutes, heavy) ==
  [kind |-> "Truck", route_minutes |-> minutes, heavy_load |-> heavy]

ShipTransport(reserved, clearance) ==
  [kind |-> "Ship", reserved |-> reserved, clearance_days |-> clearance]

AirTransport(express) ==
  [kind |-> "Air", express |-> express]

\* no transport built yet (a null unique_ptr)
NoTransport == [kind |-> "None"]

\* std::to_string(int): one token per character
Digit(d) ==
  CASE d = 0 -> "0" [] d = 1 -> "1" [] d = 2 -> "2" [] d = 3 -> "3"
    [] d = 4 -> "4" [] d = 5 -> "5" [] d = 6 -> "6" [] d = 7 -> "7"
    [] d = 8 -> "8" [] d = 9 -> "9"

RECURSIVE NatDigits(_)
NatDigits(n) ==
  IF n < 10 THEN <<Digit(n)>> ELSE NatDigits(n \div 10) \o <<Digit(n % 10)>>

to_string(n) == IF n < 0 THEN <<"-">> \o NatDigits(-n) ELSE NatDigits(n)

\* TruckTransport::calculate_delivery_time, the day count
TruckDaysRoundedUp(t) ==
  1 + TruncDiv(t.route_minutes + Minutes(60) - 1, Minutes(60))
    + (IF t.heavy_load THEN 1 ELSE 0)

TruckDays(t) ==
  1 + TruncDiv(t.route_minutes, Minutes(60)) + (IF t.heavy_load THEN 1 ELSE 0)

\* ShipTransport::calculate_delivery_time, the day count
ShipDays(t) == 10 + t.clearance_days + (IF ~t.reserved THEN 3 ELSE 0)

\* the day count in the label calculate_delivery_time returns
calculate_delivery_days(t) ==
  CASE t.kind = "Truck" -> TruckDays(t)
    [] t.kind = "Ship" -> ShipDays(t)
    [] t.kind = "Air" -> IF t.express THEN 1 ELSE 2

calculate_delivery_time(t) ==
  CASE t.kind = "Truck" -> <<"Truck: ">> \o to_string(TruckDays(t)) \o <<" days">>
    [] t.kind = "Ship" -> <<"Ship: ">> \o to_string(ShipDays(t)) \o <<" days">>
    [] t.kind = "Air" ->
         IF t.express THEN <<"Air: 1 day (Express)">> ELSE <<"Air: 2 days">>

info(t) ==
  CASE t.kind = "Truck" ->
         <<"Truck (Route: ">> \o to_string(TruncDiv(t.route_minutes, Minutes(1)))
           \o <<"m)">>
    [] t.kind = "Ship" ->
         <<"Ship (Reserved: ", IF t.reserved THEN "Yes" ELSE "No", ")">>
    [] t.kind = "Air" ->
         <<"Air (Express: ", IF t.express THEN "Yes" ELSE "No", ")">>

\* ------------------------------------------------------------------------
\* TransportFactory
\* ------------------------------------------------------------------------

OrderDetails(id, weight, distance, urgent) ==
  [id |-> id, weight_kg |-> weight, distance_km |-> distance, urgent |-> urgent]

\* the urgent factor applied to the distance term only
base_mins_distance_scaled(order) ==
  LET leg == (order.distance_km * Minutes(1)) \div Tenths(50)
  IN Minutes(30) + (IF order.urgent THEN (leg * 8) \div 10 ELSE leg)

\* 30.0 + distance_km / 50.0, times 0.8 when urgent
base_mins(order) ==
  LET base == Minutes(30) + (order.distance_km * Minutes(1)) \div Tenths(50)
  IN IF order.urgent THEN (base * 8) \div 10 ELSE base

\* the route computed from the id field instead of the distance
create_transport_id_for_distance(order) ==
  IF order.urgent /\ order.weight_kg < AIR_MAX_WEIGHT
       /\ order.distance_km > AIR_MIN_DIST
  THEN AirTransport(TRUE)
  ELSE IF order.distance_km > SHIP_MIN_DIST \/ order.weight_kg > SHIP_MAX_WEIGHT
  THEN ShipTransport(TRUE, 2)
  ELSE TruckTransport(base_mins([order EXCEPT !.distance_km = Tenths(order.id)]),
                      order.weight_kg > TRUCK_HEAVY_THRESHOLD)

\* the Ship rule on the weight alone, whatever the distance
create_transport_ship_by_weight(order) ==
  IF order.urgent /\ order.weight_kg < AIR_MAX_WEIGHT
       /\ order.distance_km > AIR_MIN_DIST
  THEN AirTransport(TRUE)
  ELSE IF order.weight_kg > SHIP_MAX_WEIGHT
  THEN ShipTransport(TRUE, 2)
  ELSE TruckTransport(base_mins(order), order.weight_kg > TRUCK_HEAVY_THRESHOLD)

\* the Ship rule tried before the Air rule
create_transport_ship_first(order) ==
  IF order.distance_km > SHIP_MIN_DIST \/ order.weight_kg > SHIP_MAX_WEIGHT
  THEN ShipTransport(TRUE, 2)
  ELSE IF order.urgent /\ order.weight_kg < AIR_MAX_WEIGHT
            /\ order.distance_km > AIR_MIN_DIST
  THEN AirTransport(TRUE)
  ELSE TruckTransport(base_mins(order), order.weight_kg > TRUCK_HEAVY_THRESHOLD)

\* the port slot taken as not reserved
create_transport_unreserved(order) ==
  IF order.urgent /\ order.weight_kg < AIR_MAX_WEIGHT
       /\ order.distance_km > AIR_MIN_DIST
  THEN AirTransport(TRUE)
  ELSE IF order.distance_km > SHIP_MIN_DIST \/ order.weight_kg > SHIP_MAX_WEIGHT
  THEN ShipTransport(FALSE, 2)
  ELSE TruckTransport(base_mins(order), order.weight_kg > TRUCK_HEAVY_THRESHOLD)

\* Air chosen on weight and distance alone, express following the urgency
create_transport_air_any(order) ==
  IF order.weight_kg < AIR_MAX_WEIGHT /\ order.distance_km > AIR_MIN_DIST
  THEN AirTransport(order.urgent)
  ELSE IF order.distance_km > SHIP_MIN_DIST \/ order.weight_kg > SHIP_MAX_WEIGHT
  THEN ShipTransport(TRUE, 2)
  ELSE TruckTransport(base_mins(order), order.weight_kg > TRUCK_HEAVY_THRESHOLD)

create_transport(order) ==
  IF order.urgent /\ order.weight_kg < AIR_MAX_WEIGHT
       /\ order.distance_km > AIR_MIN_DIST
  THEN AirTransport(TRUE)
  ELSE IF order.distance_km > SHIP_MIN_DIST \/ order.weight_kg > SHIP_MAX_WEIGHT
  THEN ShipTransport(TRUE, 2)
  ELSE TruckTransport(base_mins(order), order.weight_kg > TRUCK_HEAVY_THRESHOLD)

\* ------------------------------------------------------------------------
\* Order.cpp: the selection embedded in its OrderManager
\* ------------------------------------------------------------------------

plan_route_minutes(order) ==
  LET base == Minutes(30) + (order.distance_km * Minutes(1)) \div Tenths(50)
  IN IF order.urgent THEN (base * 8) \div 10 ELSE base

try_reserve_port_slot(order) == TRUE

estimate_customs_clearance(order) == 2

\* the Ship rule taking a distance of exactly 2000 as well
create_transport_for_inclusive(order) ==
  IF order.urgent /\ order.weight_kg < Tenths(20) /\ order.distance_km > Tenths(500)
  THEN AirTransport(TRUE)
  ELSE IF order.distance_km >= Tenths(2000) \/ order.weight_kg > Tenths(1000)
  THEN ShipTransport(try_reserve_port_slot(order), estimate_customs_clearance(order))
  ELSE TruckTransport(plan_route_minutes(order), order.weight_kg > Tenths(200))

create_transport_for(order) ==
  IF order.urgent /\ order.weight_kg < Tenths(20) /\ order.distance_km > Tenths(500)
  THEN AirTransport(TRUE)
  ELSE IF order.distance_km > Tenths(2000) \/ order.weight_kg > Tenths(1000)
  THEN ShipTransport(try_reserve_port_slot(order), estimate_customs_clearance(order))
  ELSE TruckTransport(plan_route_minutes(order), order.weight_kg > Tenths(200))

\* the day count in the label calculate_delivery_time of Order.cpp returns
calculate_delivery_days_embedded(t) ==
  CASE t.kind = "Truck" ->
         1 + TruncDiv(t.route_minutes, Minutes(60)) + (IF t.heavy_load THEN 1 ELSE 0)
    [] t.kind = "Ship" -> 10 + t.clearance_days + (IF ~t.reserved THEN 3 ELSE 0)
    [] t.kind = "Air" -> IF t.express THEN 1 ELSE 2

\* OrderManager::process_order of Order.cpp
process_order(recs, details) ==
  Append(recs, [id |-> details.id, details |-> details,
                transport |-> create_transport_for(details)])

\* ------------------------------------------------------------------------
\* OrderManager
\* ------------------------------------------------------------------------

Record(id, transport) == [id |-> id, transport |-> transport]

\* a record with the same id replaced instead of a new one appended
process_by_id(recs, details) ==
  IF \E i \in 1..Len(recs) : recs[i].id = details.id
  THEN [i \in 1..Len(recs) |->
          IF recs[i].id = details.id
          THEN Record(details.id, create_transport(details)) ELSE recs[i]]
  ELSE Append(recs, Record(details.id, create_transport(details)))

\* OrderManager::process: records_.push_back({details.id, transport})
process(recs, details) ==
  Append(recs, Record(details.id, create_transport(details)))

\* one line of OrderManager::get_summary
SummaryLine(r) ==
  <<"[Order #">> \o to_string(r.id) \o <<"] ">> \o info(r.transport)
    \o <<" -> ETA: ">> \o calculate_delivery_time(r.transport) \o <<"\n">>

\* OrderManager::get_summary: the lines of the records, in order
get_summary(recs) == [i \in 1..Len(recs) |-> SummaryLine(recs[i])]

\* only the newest record removed
clear_last(recs) == IF recs = <<>> THEN <<>> ELSE SubSeq(recs, 1, Len(recs) - 1)

\* OrderManager::clear
clear(recs) == <<>>

\* ------------------------------------------------------------------------
\* State
\* ------------------------------------------------------------------------

VARIABLES
  records,             \* manager_instance.records_
  last_output_buffer,  \* the static string get_orders_log hands back
  added,               \* history: the orders passed to add_order since the last reset_system
  lastCall,            \* history: the interface function called last
  dropped,             \* history: how many records the last call removed
  gets,                \* history: get_orders_log calls since the last add_order or reset_system
  logged,              \* history: the records at the last get_orders_log since the last reset_system
  order,               \* the OrderDetails a factory call is made with
  transport,           \* the transport the factory returned for order
  embedded,            \* the transport Order.cpp's manager created for order
  eta,                 \* calculate_delivery_time() of transport
  descr,               \* info() of transport
  pc                   \* position of the factory run

ledgerVars == <<records, last_output_buffer, added, lastCall, dropped, gets, logged>>

factoryVars == <<order, transport, embedded, eta, descr, pc>>

vars == <<records, last_output_buffer, added, lastCall, dropped, gets, logged,
          order, transport, embedded, eta, descr, pc>>

\* ------------------------------------------------------------------------
\* Inputs
\* ------------------------------------------------------------------------

\* ids, weights and distances the callers of the extern "C" interface pass
Ids == {1, 2}

Weights == {-50, Tenths(15), Tenths(1200)}

Distances == {-100, Tenths(600)}

\* the (weight, distance) pairs passed: every weight at the long distance and
\* every distance at the light weight
WeightsDistances ==
  {<<w, Tenths(600)>> : w \in Weights} \cup {<<Tenths(15), d>> : d \in Distances}

\* weights and distances the factory is run on: every threshold of Config,
\* a value on each side of it, and values outside the documented domain
FactoryWeights ==
  {-50, 0, Tenths(15), 199, Tenths(20), 1505, Tenths(200), 2001, Tenths(250),
   Tenths(1000), 10001, Tenths(1200)}

FactoryDistances ==
  {Tenths(-5000), -100, 0, Tenths(100), Tenths(300), Tenths(500), 5001,
   Tenths(600), 14999, Tenths(1500), Tenths(2000), 20001, Tenths(2500)}

NoOrder == OrderDetails(0, 0, 0, FALSE)

\* ------------------------------------------------------------------------
\* The extern "C" interface
\* ------------------------------------------------------------------------

Init ==
  /\ records = <<>>
  /\ last_output_buffer = <<>>
  /\ added = <<>>
  /\ lastCall = "none"
  /\ dropped = 0
  /\ gets = 0
  /\ logged = <<>>
  /\ order = NoOrder
  /\ transport = NoTransport
  /\ embedded = NoTransport
  /\ eta = <<>>
  /\ descr = <<>>
  /\ pc = "idle"

add_order(id, weight, distance, urgent) ==
  LET d == OrderDetails(id, weight, distance, urgent)
  IN /\ Len(records) < MaxOrders
     /\ records' = process(records, d)
     /\ added' = Append(added, d)
     /\ lastCall' = "add_order"
     /\ dropped' = 0
     /\ gets' = 0
     /\ UNCHANGED <<last_output_buffer, logged>>
     /\ UNCHANGED factoryVars

\* the summary built by moving the records out of the manager
get_orders_log_consuming ==
  /\ last_output_buffer' = get_summary(records)
  /\ records' = <<>>
  /\ lastCall' = "get_orders_log"
  /\ dropped' = Len(records)
  /\ gets' = IF gets < MaxGets THEN gets + 1 ELSE gets
  /\ logged' = records
  /\ UNCHANGED added
  /\ UNCHANGED factoryVars

get_orders_log ==
  /\ last_output_buffer' = get_summary(records)
  /\ lastCall' = "get_orders_log"
  /\ dropped' = 0
  /\ gets' = IF gets < MaxGets THEN gets + 1 ELSE gets
  /\ logged' = records
  /\ UNCHANGED <<records, added>>
  /\ UNCHANGED factoryVars

\* the ledger cleared and the buffer left as it was
reset_system_keeps_buffer ==
  /\ records' = clear(records)
  /\ added' = <<>>
  /\ lastCall' = "reset_system"
  /\ dropped' = Len(records) - Len(records')
  /\ gets' = 0
  /\ logged' = <<>>
  /\ UNCHANGED last_output_buffer
  /\ UNCHANGED factoryVars

reset_system ==
  /\ records' = clear(records)
  /\ last_output_buffer' = <<>>
  /\ added' = <<>>
  /\ lastCall' = "reset_system"
  /\ dropped' = Len(records) - Len(records')
  /\ gets' = 0
  /\ logged' = <<>>
  /\ UNCHANGED factoryVars

AddOrder ==
  \E id \in Ids, wd \in WeightsDistances, urgent \in BOOLEAN :
    add_order(id, wd[1], wd[2], urgent)

Next == AddOrder \/ get_orders_log \/ reset_system

Spec == Init /\ [][Next]_vars

\* ------------------------------------------------------------------------
\* One run of the factory and of the transport it returns
\* ------------------------------------------------------------------------

InitFactory ==
  /\ records = <<>>
  /\ last_output_buffer = <<>>
  /\ added = <<>>
  /\ lastCall = "none"
  /\ dropped = 0
  /\ gets = 0
  /\ logged = <<>>
  /\ order \in {OrderDetails(1, w, d, u) :
                  w \in FactoryWeights, d \in FactoryDistances, u \in BOOLEAN}
  /\ transport = NoTransport
  /\ embedded = NoTransport
  /\ eta = <<>>
  /\ descr = <<>>
  /\ pc = "order"

CreateTransport ==
  /\ pc = "order"
  /\ transport' = create_transport(order)
  /\ pc' = "created"
  /\ UNCHANGED <<order, embedded, eta, descr>>
  /\ UNCHANGED ledgerVars

Info ==
  /\ pc = "created"
  /\ descr' = info(transport)
  /\ pc' = "described"
  /\ UNCHANGED <<order, transport, embedded, eta>>
  /\ UNCHANGED ledgerVars

CalculateDeliveryTime ==
  /\ pc = "described"
  /\ eta' = calculate_delivery_time(transport)
  /\ pc' = "done"
  /\ UNCHANGED <<order, transport, embedded, descr>>
  /\ UNCHANGED ledgerVars

\* OrderManager::process_order of Order.cpp, on the same order
CreateTransportFor ==
  /\ embedded = NoTransport
  /\ embedded' = create_transport_for(order)
  /\ UNCHANGED <<order, transport, eta, descr, pc>>
  /\ UNCHANGED ledgerVars

NextFactory == CreateTransport \/ CreateTransportFor \/ Info \/ CalculateDeliveryTime

SpecFactory == InitFactory /\ [][NextFactory]_vars

\* ------------------------------------------------------------------------
\* The interface with a caller that keeps one processed order
\* ------------------------------------------------------------------------

\* add_order while the ledger holds fewer than MaxSession records
AddOrderSession ==
  /\ Len(records) < MaxSession
  /\ AddOrder

\* the caller keeps one order of the ledger and the transport process gave it
KeepRecord ==
  /\ \E i \in 1..Len(records) :
       /\ order' = added[i]
       /\ transport' = records[i].transport
  /\ UNCHANGED <<embedded, eta, descr, pc>>
  /\ UNCHANGED ledgerVars

NextSession == AddOrderSession \/ get_orders_log \/ reset_system \/ KeepRecord

SpecSession == Init /\ [][NextSession]_vars

\* ------------------------------------------------------------------------
\* Properties
\* ------------------------------------------------------------------------

InDomain(o) == o.weight_kg >= 0 /\ o.distance_km >= 0

\* the mode the selection rules name for an order, by first match
RuleMode(o) ==
  IF o.urgent /\ o.weight_kg < Tenths(20) /\ o.distance_km > Tenths(500)
  THEN "Air"
  ELSE IF o.distance_km > Tenths(2000) \/ o.weight_kg > Tenths(1000)
  THEN "Ship"
  ELSE "Truck"

\* C1: for every order with weight_kg >= 0 and distance_km >= 0 the factory
\* picks exactly one mode by first match: Air iff urgent, weight < 20 and
\* distance > 500; otherwise Ship iff distance > 2000 or weight > 1000;
\* otherwise Truck.  The comparisons are strict, and an order satisfying the
\* Air and the Ship condition gets Air.
C1_FirstMatchSelection ==
  (pc # "order" /\ InDomain(order)) =>
     /\ transport.kind \in {"Air", "Ship", "Truck"}
     /\ transport.kind = RuleMode(order)
     /\ (order.weight_kg = Tenths(20) => transport.kind # "Air")
     /\ (order.distance_km = Tenths(500) => transport.kind # "Air")
     /\ (order.distance_km = Tenths(2000) /\ order.weight_kg <= Tenths(1000)
           => transport.kind # "Ship")
     /\ (order.weight_kg = Tenths(1000) /\ order.distance_km <= Tenths(2000)
           => transport.kind # "Ship")

\* an urgent order of 15 kg over 2500 km, Air and Ship both applicable, got Air
C1_Witness ==
  /\ pc = "created"
  /\ order = OrderDetails(1, Tenths(15), Tenths(2500), TRUE)
  /\ transport.kind = "Air"

\* the log the orders of a history are to produce, one line per order
ExpectedLog(orders) ==
  [i \in 1..Len(orders) |->
     SummaryLine(Record(orders[i].id, create_transport(orders[i])))]

\* C2: the log lists exactly one entry per add_order made since the most
\* recent reset_system, in the order of the calls, repeated ids included, and
\* an add_order changes, reorders or removes no earlier entry.
C2_LedgerOrder ==
  /\ [](/\ Len(records) = Len(added)
        /\ get_summary(records) = ExpectedLog(added)
        /\ (lastCall = "get_orders_log" => last_output_buffer = ExpectedLog(added)))
  /\ [][lastCall' = "add_order" /\ added' # added =>
          /\ Len(records') = Len(records) + 1
          /\ SubSeq(records', 1, Len(records)) = records
          /\ SubSeq(get_summary(records'), 1, Len(records)) = get_summary(records)]_vars

\* two orders with the same id and different transports, logged in call order
C2_Witness ==
  /\ lastCall = "get_orders_log"
  /\ Len(added) = 2
  /\ added[1].id = added[2].id
  /\ records[1].transport.kind = "Ship"
  /\ records[2].transport.kind = "Air"
  /\ Len(last_output_buffer) = 2
  /\ last_output_buffer[1] # last_output_buffer[2]

\* C3: an add_order with weight_kg < 0 or distance_km < 0 is rejected: the
\* order gets no transport, is not appended, and the ledger stays as it was.
C3_NegativeRejected ==
  [][(lastCall' = "add_order" /\ added' # added
        /\ ~InDomain(added'[Len(added')]))
      => records' = records]_vars

\* C4: whatever the ledger holds, right after reset_system the ledger is
\* empty and the log is the empty log; orders added after the reset appear
\* alone, no record from before the reset reappearing.
C4_ResetEmpties ==
  /\ (lastCall = "reset_system" =>
        records = <<>> /\ get_summary(records) = <<>> /\ last_output_buffer = <<>>)
  /\ Len(get_summary(records)) = Len(added)
  /\ \A i \in 1..Len(records) : i <= Len(added) /\ records[i].id = added[i].id

\* a reset that dropped several records
C4_Witness ==
  /\ lastCall = "reset_system"
  /\ dropped >= 2
  /\ records = <<>>

\* C5: a Truck is built with route_minutes = 30 + distance_km / 50, the whole
\* sum times 0.8 when the order is urgent, and heavy_load iff weight_kg > 200.
C5_TruckParameters ==
  \A t \in {transport, embedded} :
    t.kind = "Truck" =>
      /\ 10 * Tenths(50) * t.route_minutes
           = (IF order.urgent THEN 8 ELSE 10)
               * (Minutes(30) * Tenths(50) + order.distance_km * Minutes(1))
      /\ t.heavy_load = (order.weight_kg > Tenths(200))
      /\ (order.weight_kg = Tenths(200) => ~t.heavy_load)

\* an urgent heavy order over 600 km: (30 + 12) * 0.8 = 33.6 minutes
C5_Witness ==
  /\ pc = "created"
  /\ transport.kind = "Truck"
  /\ order.urgent
  /\ order.distance_km = Tenths(600)
  /\ transport.heavy_load
  /\ 10 * transport.route_minutes = Minutes(336)
  /\ embedded = transport

\* C6: a Truck reports days = 1 + floor(route_minutes / 60) + (1 if
\* heavy_load), for every route_minutes >= 0: below 60 no day is added, at
\* exactly 60 one day is.
C6_TruckEta ==
  (pc = "done" /\ transport.kind = "Truck" /\ transport.route_minutes >= 0) =>
     /\ eta = <<"Truck: ">>
                \o to_string(1 + (transport.route_minutes \div Minutes(60))
                               + (IF transport.heavy_load THEN 1 ELSE 0))
                \o <<" days">>
     /\ (transport.route_minutes < Minutes(60) /\ ~transport.heavy_load
           => eta = <<"Truck: ", "1", " days">>)
     /\ (transport.route_minutes = Minutes(60) /\ ~transport.heavy_load
           => eta = <<"Truck: ", "2", " days">>)

\* route_minutes of exactly 60 (1500 km, not urgent) reported as 2 days
C6_Witness ==
  /\ pc = "done"
  /\ transport.kind = "Truck"
  /\ transport.route_minutes = Minutes(60)
  /\ ~transport.heavy_load
  /\ eta = <<"Truck: ", "2", " days">>

\* the tokens of a line that follow a token
After(line, token) ==
  {SubSeq(line, k + 1, Len(line)) : k \in {j \in 1..Len(line) : line[j] = token}}

\* C7: every Ship record of the ledger has port_reserved = true and
\* clearance_days = 2, its ETA is exactly 12 days, and no log shows another
\* Ship ETA.
C7_ShipAlwaysTwelve ==
  /\ \A i \in 1..Len(records) :
       records[i].transport.kind = "Ship" =>
         /\ records[i].transport.reserved
         /\ records[i].transport.clearance_days = 2
         /\ calculate_delivery_time(records[i].transport)
              = <<"Ship: ", "1", "2", " days">>
  /\ \A i \in 1..Len(last_output_buffer) :
       After(last_output_buffer[i], "Ship: ") \subseteq {<<"1", "2", " days", "\n">>}

\* a Ship record in the ledger and its line in the log
C7_Witness ==
  /\ Len(records) >= 1
  /\ records[1].transport.kind = "Ship"
  /\ Len(last_output_buffer) >= 1
  /\ After(last_output_buffer[1], "Ship: ") # {}

\* C8: every Air record of the ledger has express = true and reports 1 day,
\* "Air: 2 days" appears in no log, and every Air record belongs to an order
\* that was urgent.
C8_AirAlwaysExpress ==
  /\ \A i \in 1..Len(records) :
       records[i].transport.kind = "Air" =>
         /\ records[i].transport.express
         /\ calculate_delivery_time(records[i].transport) = <<"Air: 1 day (Express)">>
         /\ i <= Len(added)
         /\ added[i].urgent
  /\ \A i \in 1..Len(last_output_buffer) :
       \A k \in 1..Len(last_output_buffer[i]) :
         last_output_buffer[i][k] # "Air: 2 days"

\* an Air record in the ledger and its line in the log
C8_Witness ==
  /\ Len(records) >= 1
  /\ records[1].transport.kind = "Air"
  /\ Len(last_output_buffer) >= 1
  /\ \E k \in 1..Len(last_output_buffer[1]) :
       last_output_buffer[1][k] = "Air: 1 day (Express)"

\* C9: the documented example: weight 150.5, distance 600, urgent yields a
\* Truck whose info is "Truck (Route: 42m)" and whose ETA is "Truck: 2 days".
C9_DocumentedExample ==
  (pc = "done" /\ order.weight_kg = 1505 /\ order.distance_km = Tenths(600)
     /\ order.urgent) =>
     /\ transport.kind = "Truck"
     /\ descr = <<"Truck (Route: ", "4", "2", "m)">>
     /\ eta = <<"Truck: ", "2", " days">>

\* C10: get_orders_log is a read: it leaves the records unchanged, and a
\* second call with no add_order or reset_system in between returns an equal
\* log.
C10_LogIsRead ==
  [][lastCall' = "get_orders_log" =>
       /\ records' = records
       /\ (gets >= 1 => last_output_buffer' = last_output_buffer)
       /\ last_output_buffer' = get_summary(records')]_vars

\* the log read twice in a row from a ledger of several records
C10_Witness ==
  /\ lastCall = "get_orders_log"
  /\ gets = 2
  /\ Len(records) >= 2
  /\ Len(last_output_buffer) = Len(records)

\* two orders with equal weight, distance and urgency
SameAttributes(a, b) ==
  /\ a.weight_kg = b.weight_kg
  /\ a.distance_km = b.distance_km
  /\ a.urgent = b.urgent

\* the orders now in the ledger, as a set
Added == {added[i] : i \in 1..Len(added)}

\* C11: the transport chosen is a function of (weight_kg, distance_km,
\* urgent) alone: two orders equal in these get an equal mode and equal
\* parameters whatever their ids, whatever the ledger held when each was
\* added, and whether or not reset_system was called between them.
C11_TransportOfAttributesOnly ==
  /\ Len(records) = Len(added)
  /\ \A i, j \in 1..Len(records) :
       SameAttributes(added[i], added[j]) =>
         records[i].transport = records[j].transport
  /\ \A i \in 1..Len(records) :
       (transport # NoTransport /\ SameAttributes(added[i], order)) =>
         records[i].transport = transport

\* a Truck order kept from before a reset, and an order of equal attributes
\* and another id added second to the new ledger, with the same Truck
C11_Witness ==
  /\ transport.kind = "Truck"
  /\ order \notin Added
  /\ Len(records) = 2
  /\ ~SameAttributes(added[1], order)
  /\ SameAttributes(added[2], order)
  /\ added[2].id # order.id
  /\ records[2].transport = transport

\* C12: every Truck built for an order with weight_kg >= 0 and
\* distance_km >= 0 reports an ETA of 1, 2 or 3 days and never more: Truck
\* is chosen only when distance_km <= 2000, so route_minutes never exceeds
\* 70, the route adds at most one day and heavy load at most one more.
C12_TruckEtaAtMostThree ==
  (pc # "order" /\ InDomain(order) /\ transport.kind = "Truck") =>
     /\ order.distance_km <= Tenths(2000)
     /\ transport.route_minutes >= 0
     /\ transport.route_minutes <= Minutes(70)
     /\ TruncDiv(transport.route_minutes, Minutes(60)) \in {0, 1}
     /\ calculate_delivery_days(transport) \in {1, 2, 3}
     /\ (pc = "done" =>
           eta \in {<<"Truck: ", "1", " days">>, <<"Truck: ", "2", " days">>,
                    <<"Truck: ", "3", " days">>})

\* the longest Truck route, 2000 km not urgent, with a heavy load: 3 days
C12_Witness ==
  /\ pc = "done"
  /\ InDomain(order)
  /\ order.distance_km = Tenths(2000)
  /\ transport.kind = "Truck"
  /\ transport.route_minutes = Minutes(70)
  /\ transport.heavy_load
  /\ eta = <<"Truck: ", "3", " days">>

\* what a manager's record shows: id, mode and ETA days
Shown(id, t, days) == <<id, t.kind, days>>

\* C13: the two implementations of the selection agree: for every order
\* create_transport_for of Order.cpp and TransportFactory::create_transport
\* choose the same mode with the same parameters and so the same ETA day
\* count, and the record each manager appends shows the same (id, mode, days).
C13_ImplementationsAgree ==
  (transport # NoTransport /\ embedded # NoTransport) =>
     /\ embedded.kind = transport.kind
     /\ embedded = transport
     /\ calculate_delivery_days_embedded(embedded) = calculate_delivery_days(transport)
     /\ LET a == process(<<>>, order)[1]
            b == process_order(<<>>, order)[1]
        IN /\ a.transport = transport
           /\ b.transport = embedded
           /\ Shown(a.id, a.transport, calculate_delivery_days(a.transport))
                = Shown(b.id, b.transport, calculate_delivery_days_embedded(b.transport))

\* both selections made for an order on the Ship distance threshold
C13_Witness ==
  /\ order.distance_km = Tenths(2000)
  /\ order.weight_kg = Tenths(1000)
  /\ transport.kind = "Truck"
  /\ embedded.kind = "Truck"
  /\ calculate_delivery_days_embedded(embedded) = 3

\* C14: last_output_buffer, which get_orders_log hands back, always equals
\* the summary of the ledger as it was at the most recent get_orders_log
\* since the last reset_system and is empty if there was none: add_order
\* leaves it unchanged (it may lag behind the ledger), a later get_orders_log
\* overwrites it, and reset_system empties it together with the ledger.
C14_BufferIsLastLog ==
  /\ last_output_buffer = get_summary(logged)
  /\ Len(logged) <= Len(records)
  /\ logged = SubSeq(records, 1, Len(logged))
  /\ (lastCall = "get_orders_log" => last_output_buffer = get_summary(records))
  /\ (lastCall = "reset_system" => last_output_buffer = <<>> /\ records = <<>>)
  /\ (lastCall = "none" => last_output_buffer = <<>>)

\* the buffer lagging: one record logged, then more added
C14_Witness ==
  /\ lastCall = "add_order"
  /\ Len(logged) = 1
  /\ Len(records) >= 2
  /\ last_output_buffer = get_summary(logged)
  /\ last_output_buffer # get_summary(records)

====
